---------------------------- MODULE Spec2Model ----------------------------
(***************************************************************************)
(* Payment-to-order reconciliation of the e-commerce backend.              *)
(*                                                                         *)
(* The repository holds several live versions of the same checkout and     *)
(* confirmation handlers.  Each version is a "flow" of the model:          *)
(*   stripeDeferred  src/src/controllers/stripecontroller.js:1-200         *)
(*   stripeEager     src/src/controllers/stripecontroller.js:201-416       *)
(*   paypalDeferred  src/unnamed/part_014                                  *)
(*   paypalEager     src/src/controllers/paypal.controller.js:674-1413     *)
(*   paypalV1        src/src/controllers/paypal.controller.js:1-673        *)
(*   api             src/src/controllers/customerOrder.controller.js       *)
(*   admin           src/src/controllers/admin/orderController.js          *)
(*                                                                         *)
(* Money is counted in thousandths of a euro (1 EUR = 1000), so that the   *)
(* rounding to two decimals done by the code is a real conversion.         *)
(***************************************************************************)
EXTENDS Integers, Sequences, FiniteSets, TLC

VARIABLES
    orders,               \* the Order collection: sequence of documents, _id = index
    sessions,             \* remote checkout sessions held by the processors
    pendingPayPalOrders,  \* global.pendingPayPalOrders: session id -> payload
    procs,                \* in-flight multi-step request handlers
    lastResp,             \* the HTTP response most recently sent
    overlapped            \* session ids for which two capture requests ran concurrently

vars == <<orders, sessions, pendingPayPalOrders, procs, lastResp, overlapped>>

---------------------------------------------------------------------------
(* Bounds of the model *)

MaxOrders == 2
MaxSessions == 1
MaxProcs == 2
MaxLifecycleOrders == 1

(* Math.abs(totals.total - frontendTotal) > 0.01, in thousandths *)
Tolerance == 10

\* an identifier field that is not set (stripePaymentIntentId, paypalOrderId)
NoId == 0
Idle == [kind |-> "idle"]
NoResp == [op |-> "none", flow |-> "", code |-> 0, req |-> <<>>, receipt |-> NoId]

---------------------------------------------------------------------------
(* Pure helpers *)

RECURSIVE SumLines(_)
SumLines(items) ==
    IF items = <<>> THEN 0
    ELSE Head(items).price * Head(items).quantity + SumLines(Tail(items))

Abs(x) == IF x < 0 THEN -x ELSE x

\* Number(x.toFixed(2)): round to the nearest cent, halves away from zero
Round2(x) ==
    IF x >= 0 THEN ((x + 5) \div 10) * 10 ELSE -((((-x) + 5) \div 10) * 10)

\* Math.round(x * 100): the amount in cents sent to Stripe
ToCents(x) == (x + 5) \div 10

\* sum(price x quantity) + deliveryFee - discountAmount, rounded to 2 decimals
ExpectedTotal(req) ==
    Round2(SumLines(req.items) + req.deliveryFee - req.discountAmount)

---------------------------------------------------------------------------
(* Checkout requests (req.body).  A request is a record                     *)
(*   items            sequence of [price, quantity, catalog]; catalog is    *)
(*                    the set of prices the Product collection holds for    *)
(*                    the variant: empty when the lookup finds nothing      *)
(*   deliveryFee, discountAmount, amount   (amount = client-declared total) *)
(*   pickupType       "store" | "delivery" | anything else                  *)
(*   pickupLocation   "full" (id, name, address) | "partial" | "none"       *)
(*   deliveryAddress  "full" (street, city) | "nocity" | "none"             *)
(*   deliveryTime     TRUE when a time slot is given                        *)
(*   customer         "ok" | "noname" | "noemail" | "nophone" | "bademail"  *)
(*   paymentMethod    "stripe" | "paypal" | "especes" | anything else       *)

Item(p, q) == [price |-> p, quantity |-> q, catalog |-> {p}]

Req(items, fee, disc, amount, ptype, loc, addr, time, cust, pm) ==
    [items |-> items, deliveryFee |-> fee, discountAmount |-> disc,
     amount |-> amount, pickupType |-> ptype, pickupLocation |-> loc,
     deliveryAddress |-> addr, deliveryTime |-> time, customer |-> cust,
     paymentMethod |-> pm]

OneItem == <<Item(2000, 1)>>
TwoItems == <<Item(1004, 1), Item(2000, 2)>>

StoreReq == Req(OneItem, 0, 0, 2000, "store", "full", "none", FALSE, "ok", "stripe")
DeliveryReq == Req(OneItem, 500, 0, 2500, "delivery", "none", "full", TRUE, "ok", "paypal")
MismatchReq == Req(OneItem, 0, 0, 5000, "store", "full", "none", FALSE, "ok", "stripe")

\* The requests of the reconciliation protocol: a well-formed checkout and
\* one whose declared total is not the recomputed one.
ProtocolRequests == {StoreReq, MismatchReq}

\* Requests that vary the money fields of a well-formed store checkout.
MoneyRequests ==
    { Req(items, fee, disc, amount, "store", "full", "none", FALSE, "ok", pm) :
        items \in {<<>>, OneItem, TwoItems, <<Item(0, 1)>>, <<Item(2000, 0)>>,
                   <<Item(2000, 1), Item(2000, -1)>>,
                   <<[price |-> 2000, quantity |-> 1, catalog |-> {3000}]>>,
                   <<[price |-> 2000, quantity |-> 1, catalog |-> {}]>>},
        fee \in {0, 500}, disc \in {0, 500},
        amount \in {0, 2000, 2010, 2020, 2500, 5000}, pm \in {"stripe", "especes"} }

\* Requests that vary the structure of a checkout whose money fields agree.
StructureRequests ==
    { Req(OneItem, 0, 0, 2000, ptype, loc, addr, time, cust, pm) :
        ptype \in {"store", "delivery", "drone"},
        loc \in {"full", "partial", "none"},
        addr \in {"full", "nocity", "none"},
        time \in BOOLEAN,
        cust \in {"ok", "noname", "noemail", "nophone", "bademail"},
        pm \in {"paypal", "bitcoin"} }

AllRequests == ProtocolRequests \cup {DeliveryReq} \cup MoneyRequests \cup StructureRequests

---------------------------------------------------------------------------
(* Validation and totals, one operator per version of the code.  A          *)
(* validation operator yields "" when the request passes and the name of    *)
(* the failed check otherwise, in the order the code tests them.            *)

CustomerHasName(req) == req.customer # "noname"
CustomerHasEmail(req) == req.customer # "noemail"
CustomerHasPhone(req) == req.customer # "nophone"
EmailShapeOk(req) == req.customer \notin {"noemail", "bademail"}

\* index of the first item that fails the per-item checks of validateOrderData
\* (price required and > 0, quantity a positive integer), or 0
RECURSIVE FirstBadItem(_, _)
FirstBadItem(items, i) ==
    IF i > Len(items) THEN 0
    ELSE IF items[i].price <= 0 \/ items[i].quantity <= 0 THEN i
    ELSE FirstBadItem(items, i + 1)

ValidateOrderData(req) ==
    IF req.amount <= 0 THEN "amount"
    ELSE IF ~(CustomerHasName(req) /\ CustomerHasEmail(req) /\ CustomerHasPhone(req))
        THEN "customer"
    ELSE IF ~EmailShapeOk(req) THEN "email"
    ELSE IF req.items = <<>> THEN "items"
    ELSE IF req.pickupType \notin {"store", "delivery"} THEN "pickupType"
    ELSE IF req.pickupType = "delivery" /\ req.deliveryAddress # "full"
        THEN "deliveryAddress"
    ELSE IF req.pickupType = "delivery" /\ ~req.deliveryTime THEN "deliveryTime"
    ELSE IF FirstBadItem(req.items, 1) # 0 THEN "item"
    ELSE ""

ValidateOrderDataV1(req) ==
    IF req.amount <= 0 THEN "amount"
    ELSE IF ~(CustomerHasName(req) /\ CustomerHasEmail(req) /\ CustomerHasPhone(req))
        THEN "customer"
    ELSE IF req.items = <<>> THEN "items"
    ELSE IF req.pickupType \notin {"store", "delivery"} THEN "pickupType"
    ELSE IF ~EmailShapeOk(req) THEN "email"
    ELSE IF FirstBadItem(req.items, 1) # 0 THEN "item"
    ELSE ""

CalculateTotals(items, deliveryFee, discountAmount) ==
    [itemsTotal |-> Round2(SumLines(items)),
     shippingTotal |-> Round2(deliveryFee),
     discountAmount |-> Round2(discountAmount),
     total |-> Round2(SumLines(items) + deliveryFee - discountAmount)]

CalculateTotalsV1(items, deliveryFee, discountAmount) ==
    [itemsTotal |-> Round2(SumLines(items)),
     shippingTotal |-> deliveryFee,
     discountAmount |-> discountAmount,
     total |-> Round2(SumLines(items) + deliveryFee)]

TotalsOf(flow, req) ==
    IF flow = "paypalV1"
    THEN CalculateTotalsV1(req.items, req.deliveryFee, req.discountAmount)
    ELSE CalculateTotals(req.items, req.deliveryFee, req.discountAmount)

\* Math.abs(totals.total - frontendTotal) > 0.01
TotalMismatch(total, frontendTotal) == Abs(total - frontendTotal) > Tolerance

\* what createPayPalOrder checks before it persists or calls PayPal
PayPalCheckoutError(flow, req) ==
    LET v == IF flow = "paypalV1" THEN ValidateOrderDataV1(req)
             ELSE ValidateOrderData(req)
    IN IF v # "" THEN v
       ELSE IF TotalMismatch(TotalsOf(flow, req).total, req.amount) THEN "mismatch"
       ELSE ""

\* the early returns of the deferred createPaymentIntent
StripeDeferredError(req) ==
    IF req.items = <<>> THEN "items"
    ELSE IF ~(CustomerHasEmail(req) /\ CustomerHasPhone(req)) THEN "customer"
    ELSE IF req.pickupType \notin {"store", "delivery"} THEN "pickupType"
    ELSE IF req.pickupType = "store" /\ req.pickupLocation = "none" THEN "pickupLocation"
    ELSE IF req.pickupType = "delivery" /\ req.deliveryAddress = "none"
        THEN "deliveryAddress"
    ELSE IF SumLines(req.items) + req.deliveryFee - req.discountAmount <= 0 THEN "total"
    ELSE ""

\* the early returns of the eager createPaymentIntent
StripeEagerError(req) ==
    IF req.amount <= 0 THEN "amount"
    ELSE IF ~(CustomerHasEmail(req) /\ CustomerHasPhone(req)) THEN "customer"
    ELSE IF req.pickupType \notin {"store", "delivery"} THEN "pickupType"
    ELSE IF req.pickupType = "store" /\ req.pickupLocation = "none" THEN "pickupLocation"
    ELSE IF req.pickupType = "delivery" /\ req.deliveryAddress = "none"
        THEN "deliveryAddress"
    ELSE IF req.items = <<>> THEN "items"
    ELSE ""

---------------------------------------------------------------------------
(* Order documents.  Every flow stores the same record:                     *)
(*   flow, status, paymentMethod, pickupType, isDelivered, amount,          *)
(*   itemsTotal (sum of the stored line totals), deliveryFee,               *)
(*   discountAmount, pickupLocation, deliveryAddress,                       *)
(*   stripePaymentIntentId, paypalOrderId                                   *)

\* status enum of the schema the flow's controller is written against
StatusEnum(flow) ==
    IF flow = "stripeEager"
    THEN {"pending", "paid", "failed", "completed", "cancelled"}
    ELSE {"en_attente", "paye", "termine", "annule"}

PendingOf(flow) == IF flow = "stripeEager" THEN "pending" ELSE "en_attente"
PaidOf(flow) == IF flow = "stripeEager" THEN "paid" ELSE "paye"
PaidStatuses == {"paid", "paye"}

\* orderSchema.pre('save') of the second version of the schema
PreSave(doc, statusModified) ==
    IF statusModified THEN doc
    ELSE [doc EXCEPT
            !.status = IF doc.paymentMethod = "especes" THEN "en_attente" ELSE "paye",
            !.isDelivered = (doc.pickupType = "store")]

\* orderSchema.pre('save') of the first version of the schema
PreSaveV1(doc, statusModified) ==
    IF statusModified THEN doc
    ELSE IF doc.pickupType = "delivery"
    THEN [doc EXCEPT
            !.status = IF doc.paymentMethod = "especes" THEN "en_attente" ELSE "paye",
            !.isDelivered = FALSE]
    ELSE IF doc.pickupType = "store"
    THEN [doc EXCEPT
            !.status = IF doc.paymentMethod = "especes" THEN "en_attente" ELSE "paye",
            !.isDelivered = TRUE]
    ELSE doc

\* the pre-save hook of the schema a flow runs against; the schema of the
\* eager Stripe flow registers none
RunPreSave(doc, statusModified) ==
    IF doc.flow = "stripeEager" THEN doc
    ELSE IF doc.flow = "paypalV1" THEN PreSaveV1(doc, statusModified)
    ELSE PreSave(doc, statusModified)

\* new Order(data) before save: schema defaults for what data leaves out
NewDoc(flow, data) ==
    [flow |-> flow,
     status |-> IF data.status = "" THEN PendingOf(flow) ELSE data.status,
     paymentMethod |-> data.paymentMethod,
     pickupType |-> data.pickupType,
     isDelivered |-> FALSE,
     amount |-> data.amount,
     itemsTotal |-> data.itemsTotal,
     deliveryFee |-> data.deliveryFee,
     discountAmount |-> data.discountAmount,
     pickupLocation |-> data.pickupLocation,
     deliveryAddress |-> data.deliveryAddress,
     stripePaymentIntentId |-> data.stripePaymentIntentId,
     paypalOrderId |-> data.paypalOrderId]

\* Order.create(data): a status given in data counts as modified, so the hook
\* acts only when data carries no status (data.status = "")
CreatedDoc(flow, data) == RunPreSave(NewDoc(flow, data), data.status # "")

\* doc.save() of a document loaded as `loaded`, changed locally to `local`,
\* while the collection holds `stored`: the hook runs on the local copy, and
\* only the paths that differ from what was loaded are written.
HookedDoc(loaded, local) == RunPreSave(local, local.status # loaded.status)

SaveValid(loaded, local) ==
    LET h == HookedDoc(loaded, local)
    IN h.status = loaded.status \/ h.status \in StatusEnum(h.flow)

SavedDoc(stored, loaded, local) ==
    LET h == HookedDoc(loaded, local)
    IN [f \in DOMAIN stored |-> IF h[f] # loaded[f] THEN h[f] ELSE stored[f]]

\* the order data each checkout version builds from the request
PayPalOrderData(flow, req, status) ==
    LET totals == TotalsOf(flow, req)
    IN [status |-> status,
        paymentMethod |-> "paypal",
        pickupType |-> req.pickupType,
        amount |-> totals.total,
        itemsTotal |-> SumLines(req.items),
        deliveryFee |-> totals.shippingTotal,
        discountAmount |-> totals.discountAmount,
        pickupLocation |-> IF req.pickupType = "store" THEN req.pickupLocation ELSE "none",
        deliveryAddress |-> IF req.pickupType = "delivery" THEN req.deliveryAddress ELSE "none",
        stripePaymentIntentId |-> NoId,
        paypalOrderId |-> NoId]

StripeDeferredOrderData(req) ==
    [status |-> "",
     paymentMethod |-> "stripe",
     pickupType |-> req.pickupType,
     amount |-> SumLines(req.items) + req.deliveryFee - req.discountAmount,
     itemsTotal |-> SumLines(req.items),
     deliveryFee |-> req.deliveryFee,
     discountAmount |-> req.discountAmount,
     pickupLocation |-> IF req.pickupType = "store" THEN req.pickupLocation ELSE "none",
     deliveryAddress |-> IF req.pickupType = "delivery" THEN req.deliveryAddress ELSE "none",
     stripePaymentIntentId |-> NoId,
     paypalOrderId |-> NoId]

StripeEagerOrderData(req, paymentIntentId) ==
    [status |-> "pending",
     paymentMethod |-> "none",
     pickupType |-> req.pickupType,
     amount |-> req.amount,
     itemsTotal |-> SumLines(req.items),
     deliveryFee |-> req.deliveryFee,
     discountAmount |-> req.discountAmount,
     pickupLocation |-> IF req.pickupType = "store" THEN req.pickupLocation ELSE "none",
     deliveryAddress |-> IF req.pickupType = "delivery" THEN req.deliveryAddress ELSE "none",
     stripePaymentIntentId |-> paymentIntentId,
     paypalOrderId |-> NoId]

---------------------------------------------------------------------------
(* State *)

Init ==
    /\ orders = <<>>
    /\ sessions = <<>>
    /\ pendingPayPalOrders = {}
    /\ procs = [p \in 1..MaxProcs |-> Idle]
    /\ lastResp = NoResp
    /\ overlapped = {}

OrderIds == 1..Len(orders)
SessionIds == 1..Len(sessions)

\* the last response sent: which operation answered, for which variant, with
\* which HTTP status, (for a checkout) to which request, and the _id of the
\* Order whose invoice the handler mailed before it answered (NoId: none)
Resp(op, flow, code) ==
    [op |-> op, flow |-> flow, code |-> code, req |-> <<>>, receipt |-> NoId]
RespTo(req, flow, code) ==
    [op |-> "create", flow |-> flow, code |-> code, req |-> <<req>>, receipt |-> NoId]

\* sendInvoiceEmail(order.customer.email, order) inside its try/catch: the
\* invoice of Order o is mailed when the mailer resolves (emailOk); a throw
\* is logged and the response stays the one the handler was about to send
Receipted(resp, o, emailOk) == [resp EXCEPT !.receipt = IF emailOk THEN o ELSE NoId]

\* a remote checkout session as the processor holds it; amount in thousandths
Session(flow, amount, payload) ==
    [flow |-> flow, state |-> IF flow \in {"stripeDeferred", "stripeEager"}
                             THEN "requires_payment" ELSE "CREATED",
     amount |-> amount, payload |-> payload, acked |-> FALSE]

\* the Orders that bear remote session id s, and those of them that are paid
OrdersOfSession(s) ==
    { o \in OrderIds :
        IF sessions[s].flow \in {"stripeDeferred", "stripeEager"}
        THEN orders[o].stripePaymentIntentId = s
        ELSE orders[o].paypalOrderId = s }

PaidOrdersOfSession(s) == { o \in OrdersOfSession(s) : orders[o].status \in PaidStatuses }

---------------------------------------------------------------------------
(* Handlers in flight, the PayPal gateway, the payer *)

IdleProcs == { p \in 1..MaxProcs : procs[p].kind = "idle" }
\* the slot a newly arrived request runs in
FreeProc == CHOOSE p \in IdleProcs : \A q \in IdleProcs : p <= q

ConfirmKinds == {"whPersist", "capStatus", "capCapture", "capPersist",
                 "ecapCapture", "ecapSave"}
ConfirmInFlight(s) ==
    \E p \in 1..MaxProcs : procs[p].kind \in ConfirmKinds /\ procs[p].s = s

CacheGet(s) == { e \in pendingPayPalOrders : e.id = s }
CachePut(s, data) ==
    { e \in pendingPayPalOrders : e.id # s } \cup {[id |-> s, data |-> data]}
CacheDelete(s) == { e \in pendingPayPalOrders : e.id # s }

PayPalFlows == {"paypalDeferred", "paypalEager", "paypalV1"}
EagerPayPalFlows == {"paypalEager", "paypalV1"}

\* the payer approves the PayPal order on the approval page
PayerApproves(s) ==
    /\ s \in SessionIds
    /\ sessions[s].flow \in PayPalFlows
    /\ sessions[s].state = "CREATED"
    /\ sessions' = [sessions EXCEPT ![s].state = "APPROVED"]
    /\ UNCHANGED <<orders, pendingPayPalOrders, procs, lastResp, overlapped>>

\* what POST /v2/checkout/orders/:id/capture can answer for session s:
\* err = 0 is a 2xx answer carrying status `remote`, which PayPal gives only
\* for an approved order; otherwise the call throws with err as HTTP status
CaptureAnswers(s) ==
    { a \in [err : {0, 404, 422, 500}, remote : {"COMPLETED", "PENDING", "none"}] :
        IF a.err = 0
        THEN a.remote # "none" /\ sessions[s].state = "APPROVED"
        ELSE a.remote = "none" }

GatewayOutcomes == {"tokenFails", "postFails", "noApprovalUrl", "ok"}

---------------------------------------------------------------------------
(* The card processor and the payer *)

\* the payer completes the card payment: the PaymentIntent succeeds
StripePaymentSucceeds(s) ==
    /\ s \in SessionIds
    /\ sessions[s].flow \in {"stripeDeferred", "stripeEager"}
    /\ sessions[s].state = "requires_payment"
    /\ sessions' = [sessions EXCEPT ![s].state = "succeeded"]
    /\ UNCHANGED <<orders, pendingPayPalOrders, procs, lastResp, overlapped>>

\* the events the processor can sign for session s
StripeEventsOf(s) ==
    IF sessions[s].state = "succeeded"
    THEN {"payment_intent.succeeded", "charge.succeeded"}
    ELSE {"payment_intent.payment_failed", "payment_intent.created"}

---------------------------------------------------------------------------
(* Stripe, deferred variant: the Order is created by the webhook *)

CreatePaymentIntentDeferred(req) ==
    LET data == StripeDeferredOrderData(req) IN
    /\ UNCHANGED <<orders, pendingPayPalOrders, procs, overlapped>>
    /\ IF StripeDeferredError(req) # ""
       THEN /\ lastResp' = RespTo(req, "stripeDeferred", 400)
            /\ UNCHANGED sessions
       ELSE \E created \in BOOLEAN :
              IF created
              THEN /\ Len(sessions) < MaxSessions
                   /\ sessions' = Append(sessions,
                         Session("stripeDeferred", ToCents(data.amount) * 10, <<data>>))
                   /\ lastResp' = RespTo(req, "stripeDeferred", 200)
              ELSE /\ UNCHANGED sessions
                   /\ lastResp' = RespTo(req, "stripeDeferred", 500)

\* Variant of the webhook's first step with one defect: the event is
\* handled whether or not constructEvent accepted its signature.
HandleStripeWebhookDeferred_Begin_Unverified(s, type, sigOk) ==
    /\ s \in SessionIds
    /\ sessions[s].flow = "stripeDeferred"
    /\ sigOk => type \in StripeEventsOf(s)
    /\ UNCHANGED <<orders, sessions, pendingPayPalOrders>>
    /\ IF type # "payment_intent.succeeded"
       THEN /\ lastResp' = Resp("webhook", "stripeDeferred", 200)
            /\ UNCHANGED <<procs, overlapped>>
       ELSE /\ IdleProcs # {}
            /\ procs' = [procs EXCEPT ![FreeProc] =
                  [kind |-> "whPersist", s |-> s, data |-> sessions[s].payload[1]]]
            /\ overlapped' = IF ConfirmInFlight(s) THEN overlapped \cup {s} ELSE overlapped
            /\ UNCHANGED lastResp

\* POST webhook up to its await: sigOk = constructEvent accepts the signature.
\* A forged request (sigOk = FALSE) may name any event.
HandleStripeWebhookDeferred_Begin(s, type, sigOk) ==
    /\ s \in SessionIds
    /\ sessions[s].flow = "stripeDeferred"
    /\ sigOk => type \in StripeEventsOf(s)
    /\ UNCHANGED <<orders, sessions, pendingPayPalOrders>>
    /\ IF ~sigOk
       THEN /\ lastResp' = Resp("webhook", "stripeDeferred", 400)
            /\ UNCHANGED <<procs, overlapped>>
       ELSE IF type # "payment_intent.succeeded"
       THEN /\ lastResp' = Resp("webhook", "stripeDeferred", 200)
            /\ UNCHANGED <<procs, overlapped>>
       ELSE /\ IdleProcs # {}
            /\ procs' = [procs EXCEPT ![FreeProc] =
                  [kind |-> "whPersist", s |-> s, data |-> sessions[s].payload[1]]]
            /\ overlapped' = IF ConfirmInFlight(s) THEN overlapped \cup {s} ELSE overlapped
            /\ UNCHANGED lastResp

\* await Order.create inside the inner try; a rejection (dbOk = FALSE) is
\* logged and swallowed, and the handler answers { received: true } either
\* way; the invoice is mailed after a create that resolved
HandleStripeWebhookDeferred_Persist(p, dbOk, emailOk) ==
    /\ procs[p].kind = "whPersist"
    /\ procs' = [procs EXCEPT ![p] = Idle]
    /\ lastResp' = IF dbOk
                   THEN Receipted(Resp("webhook", "stripeDeferred", 200),
                                  Len(orders) + 1, emailOk)
                   ELSE Resp("webhook", "stripeDeferred", 200)
    /\ sessions' = [sessions EXCEPT ![procs[p].s].acked = TRUE]
    /\ UNCHANGED <<pendingPayPalOrders, overlapped>>
    /\ IF dbOk
       THEN /\ Len(orders) < MaxOrders
            /\ orders' = Append(orders,
                  CreatedDoc("stripeDeferred",
                    [procs[p].data EXCEPT !.status = "paye",
                                          !.paymentMethod = "stripe",
                                          !.stripePaymentIntentId = procs[p].s]))
       ELSE UNCHANGED orders

---------------------------------------------------------------------------
(* Stripe, eager variant: the Order is created with the PaymentIntent *)

\* outcome: "intentFails" (paymentIntents.create throws), "orderFails"
\* (Order.create throws after the PaymentIntent exists), "updateFails"
\* (paymentIntents.update throws after the Order is stored), "ok"
CreatePaymentIntentEager(req, outcome) ==
    /\ UNCHANGED <<pendingPayPalOrders, procs, overlapped>>
    /\ IF StripeEagerError(req) # ""
       THEN /\ lastResp' = RespTo(req, "stripeEager", 400)
            /\ UNCHANGED <<orders, sessions>>
       ELSE IF outcome = "intentFails"
       THEN /\ lastResp' = RespTo(req, "stripeEager", 500)
            /\ UNCHANGED <<orders, sessions>>
       ELSE /\ Len(sessions) < MaxSessions
            /\ sessions' = Append(sessions,
                  Session("stripeEager", ToCents(req.amount) * 10, <<>>))
            /\ IF outcome = "orderFails"
               THEN /\ lastResp' = RespTo(req, "stripeEager", 500)
                    /\ UNCHANGED orders
               ELSE /\ Len(orders) < MaxOrders
                    /\ orders' = Append(orders,
                          CreatedDoc("stripeEager",
                            StripeEagerOrderData(req, Len(sessions) + 1)))
                    /\ lastResp' = RespTo(req, "stripeEager",
                                       IF outcome = "updateFails" THEN 500 ELSE 200)

\* Order.findOneAndUpdate({ stripePaymentIntentId }, { status: 'paid' }): the
\* first matching document, whatever its status, is written
FindOneAndUpdatePaid(s) ==
    LET hit == { o \in OrderIds : orders[o].stripePaymentIntentId = s } IN
    IF hit = {} THEN orders
    ELSE LET o == CHOOSE x \in hit : \A y \in hit : x <= y
         IN [orders EXCEPT ![o].status = "paid"]

\* the Order findOneAndUpdate returns ({ new: true }), NoId when none matches
FoundOrder(s) ==
    LET hit == { o \in OrderIds : orders[o].stripePaymentIntentId = s } IN
    IF hit = {} THEN NoId ELSE CHOOSE x \in hit : \A y \in hit : x <= y

\* one try block holds constructEvent and findOneAndUpdate: a bad signature
\* (sigOk = FALSE) and a rejected update (dbOk = FALSE) both answer 400; the
\* invoice of the Order found is mailed inside sendInvoiceEmailSafely
HandleStripeWebhookEager(s, type, sigOk, dbOk, emailOk) ==
    /\ s \in SessionIds
    /\ sessions[s].flow = "stripeEager"
    /\ sigOk => type \in StripeEventsOf(s)
    /\ UNCHANGED <<pendingPayPalOrders, procs, overlapped>>
    /\ IF ~sigOk
       THEN /\ lastResp' = Resp("webhook", "stripeEager", 400)
            /\ UNCHANGED <<orders, sessions>>
       ELSE IF type \notin {"payment_intent.succeeded", "charge.succeeded"}
       THEN /\ lastResp' = Resp("webhook", "stripeEager", 200)
            /\ UNCHANGED <<orders, sessions>>
       ELSE IF ~dbOk
       THEN /\ lastResp' = Resp("webhook", "stripeEager", 400)
            /\ UNCHANGED <<orders, sessions>>
       ELSE /\ lastResp' = Receipted(Resp("webhook", "stripeEager", 200),
                                     FoundOrder(s), emailOk)
            /\ sessions' = [sessions EXCEPT ![s].acked =
                              @ \/ type = "payment_intent.succeeded"]
            /\ orders' = FindOneAndUpdatePaid(s)

\* admin PATCH /orders/:id/status of the back-office written against the
\* English statuses: findByIdAndUpdate(id, { status })
AdminUpdateOrderStatus(o, status) ==
    /\ o \in OrderIds
    /\ orders[o].flow = "stripeEager"
    /\ orders' = [orders EXCEPT ![o].status = status]
    /\ lastResp' = Resp("adminStatus", "stripeEager", 200)
    /\ UNCHANGED <<sessions, pendingPayPalOrders, procs, overlapped>>

\* the statuses a body of the admin route carries: the four its comment
\* names, and one the schema does not know
AdminStatuses == {"pending", "paid", "failed", "cancelled", "refunded"}
EagerOutcomes == {"intentFails", "orderFails", "updateFails", "ok"}
StripeEventTypes ==
    {"payment_intent.succeeded", "charge.succeeded",
     "payment_intent.payment_failed", "payment_intent.created"}

---------------------------------------------------------------------------
(* PayPal, deferred variant: order data waits in global.pendingPayPalOrders *)

CreatePayPalOrderDeferred(req, outcome) ==
    LET sid == Len(sessions) + 1
        data == PayPalOrderData("paypalDeferred", req, "")
    IN
    /\ UNCHANGED <<orders, procs, overlapped>>
    /\ IF PayPalCheckoutError("paypalDeferred", req) # ""
       THEN /\ lastResp' = RespTo(req, "paypalDeferred", 400)
            /\ UNCHANGED <<sessions, pendingPayPalOrders>>
       ELSE IF outcome \in {"tokenFails", "postFails"}
       THEN /\ lastResp' = RespTo(req, "paypalDeferred",
                               IF outcome = "tokenFails" THEN 502 ELSE 500)
            /\ UNCHANGED <<sessions, pendingPayPalOrders>>
       ELSE /\ Len(sessions) < MaxSessions
            /\ sessions' = Append(sessions, Session("paypalDeferred", data.amount, <<>>))
            /\ IF outcome = "noApprovalUrl"
               THEN /\ lastResp' = RespTo(req, "paypalDeferred", 502)
                    /\ UNCHANGED pendingPayPalOrders
               ELSE /\ pendingPayPalOrders' = CachePut(sid, data)
                    /\ lastResp' = RespTo(req, "paypalDeferred", 201)

\* the paypalOrderId a capture request can carry: none, the id of a remote
\* session, or an id no processor knows
RemoteIds == 0..(MaxSessions + 1)

\* Variant of the lookup step with one defect: a missing cache entry does not
\* end the handler, which goes on to the status check with a default payload.
CapturePayPalOrder_Begin_IgnoresMiss(s) ==
    /\ s \in RemoteIds
    /\ UNCHANGED <<orders, sessions, pendingPayPalOrders>>
    /\ IF s \notin SessionIds
       THEN /\ lastResp' = Resp("capture", "paypalDeferred", IF s = NoId THEN 400 ELSE 404)
            /\ UNCHANGED <<procs, overlapped>>
       ELSE /\ IdleProcs # {}
            /\ procs' = [procs EXCEPT ![FreeProc] =
                  [kind |-> "capStatus", s |-> s, fetched |-> "none",
                   data |-> IF CacheGet(s) = {}
                            THEN PayPalOrderData("paypalDeferred", StoreReq, "")
                            ELSE (CHOOSE e \in CacheGet(s) : TRUE).data]]
            /\ overlapped' = IF ConfirmInFlight(s) THEN overlapped \cup {s} ELSE overlapped
            /\ UNCHANGED lastResp

\* capturePayPalOrder up to its first await: the body check and the cache
\* lookup.  `fetched` is the status the handler has read from PayPal so far.
CapturePayPalOrder_Begin(s) ==
    /\ s \in RemoteIds
    /\ UNCHANGED <<orders, sessions, pendingPayPalOrders>>
    /\ IF s = NoId
       THEN /\ lastResp' = Resp("capture", "paypalDeferred", 400)
            /\ UNCHANGED <<procs, overlapped>>
       ELSE IF CacheGet(s) = {}
       THEN /\ lastResp' = Resp("capture", "paypalDeferred", 404)
            /\ UNCHANGED <<procs, overlapped>>
       ELSE /\ IdleProcs # {}
            /\ procs' = [procs EXCEPT ![FreeProc] =
                  [kind |-> "capStatus", s |-> s, fetched |-> "none",
                   data |-> (CHOOSE e \in CacheGet(s) : TRUE).data]]
            /\ overlapped' = IF ConfirmInFlight(s) THEN overlapped \cup {s} ELSE overlapped
            /\ UNCHANGED lastResp

\* Variant of the status step with one defect: a refusal (the order is not
\* APPROVED, or the token or status call throws) drops the cache entry.
CapturePayPalOrder_Status_DropsEntry(p, err) ==
    /\ procs[p].kind = "capStatus"
    /\ UNCHANGED <<orders, sessions, overlapped>>
    /\ IF err = 0 /\ sessions[procs[p].s].state = "APPROVED"
       THEN /\ procs' = [procs EXCEPT ![p].kind = "capCapture",
                                      ![p].fetched = "APPROVED"]
            /\ UNCHANGED <<lastResp, pendingPayPalOrders>>
       ELSE /\ procs' = [procs EXCEPT ![p] = Idle]
            /\ pendingPayPalOrders' = CacheDelete(procs[p].s)
            /\ lastResp' = Resp("capture", "paypalDeferred", IF err = 0 THEN 422 ELSE err)

\* getAccessToken and GET /v2/checkout/orders/:id; err # 0: one of them throws
CapturePayPalOrder_Status(p, err) ==
    /\ procs[p].kind = "capStatus"
    /\ UNCHANGED <<orders, sessions, pendingPayPalOrders, overlapped>>
    /\ IF err = 0 /\ sessions[procs[p].s].state = "APPROVED"
       THEN /\ procs' = [procs EXCEPT ![p].kind = "capCapture",
                                      ![p].fetched = "APPROVED"]
            /\ UNCHANGED lastResp
       ELSE /\ procs' = [procs EXCEPT ![p] = Idle]
            /\ lastResp' = Resp("capture", "paypalDeferred", IF err = 0 THEN 422 ELSE err)

\* Variant of the capture step with one defect: a capture that PayPal
\* answers with a status other than COMPLETED leaves the cache entry in place.
CapturePayPalOrder_Capture_KeepsPayload(p, a) ==
    /\ procs[p].kind = "capCapture"
    /\ a \in CaptureAnswers(procs[p].s)
    /\ UNCHANGED <<orders, overlapped>>
    /\ IF a.err # 0 \/ a.remote # "COMPLETED"
       THEN /\ procs' = [procs EXCEPT ![p] = Idle]
            /\ lastResp' = Resp("capture", "paypalDeferred",
                                IF a.err # 0 THEN a.err ELSE 422)
            /\ UNCHANGED <<sessions, pendingPayPalOrders>>
       ELSE /\ sessions' = [sessions EXCEPT ![procs[p].s].state = "COMPLETED"]
            /\ procs' = [procs EXCEPT ![p].kind = "capPersist"]
            /\ UNCHANGED <<pendingPayPalOrders, lastResp>>

\* axios.post .../capture and the COMPLETED check
CapturePayPalOrder_Capture(p, a) ==
    /\ procs[p].kind = "capCapture"
    /\ a \in CaptureAnswers(procs[p].s)
    /\ UNCHANGED <<orders, overlapped>>
    /\ IF a.err # 0
       THEN /\ procs' = [procs EXCEPT ![p] = Idle]
            /\ lastResp' = Resp("capture", "paypalDeferred", a.err)
            /\ UNCHANGED <<sessions, pendingPayPalOrders>>
       ELSE IF a.remote # "COMPLETED"
       THEN /\ procs' = [procs EXCEPT ![p] = Idle]
            /\ pendingPayPalOrders' = CacheDelete(procs[p].s)
            /\ lastResp' = Resp("capture", "paypalDeferred", 422)
            /\ UNCHANGED sessions
       ELSE /\ sessions' = [sessions EXCEPT ![procs[p].s].state = "COMPLETED"]
            /\ procs' = [procs EXCEPT ![p].kind = "capPersist"]
            /\ UNCHANGED <<pendingPayPalOrders, lastResp>>

\* Variant of the persist step with one defect: the mailer's throw is not
\* caught next to the call, so it reaches the handler's catch and the caller
\* gets 500 although the Order is stored.
CapturePayPalOrder_Persist_MailThrowEscapes(p, dbOk, emailOk) ==
    /\ procs[p].kind = "capPersist"
    /\ procs' = [procs EXCEPT ![p] = Idle]
    /\ UNCHANGED <<sessions, overlapped>>
    /\ IF dbOk
       THEN /\ Len(orders) < MaxOrders
            /\ orders' = Append(orders,
                  CreatedDoc("paypalDeferred",
                    [procs[p].data EXCEPT !.status = "paye",
                                          !.paypalOrderId = procs[p].s]))
            /\ pendingPayPalOrders' = CacheDelete(procs[p].s)
            /\ lastResp' = IF emailOk
                           THEN Receipted(Resp("capture", "paypalDeferred", 200),
                                          Len(orders) + 1, TRUE)
                           ELSE Resp("capture", "paypalDeferred", 500)
       ELSE /\ lastResp' = Resp("capture", "paypalDeferred", 500)
            /\ UNCHANGED <<orders, pendingPayPalOrders>>

\* Order.create after a COMPLETED capture, then the cache entry is dropped
\* and the invoice is mailed inside its own try/catch
CapturePayPalOrder_Persist(p, dbOk, emailOk) ==
    /\ procs[p].kind = "capPersist"
    /\ procs' = [procs EXCEPT ![p] = Idle]
    /\ UNCHANGED <<sessions, overlapped>>
    /\ IF dbOk
       THEN /\ Len(orders) < MaxOrders
            /\ orders' = Append(orders,
                  CreatedDoc("paypalDeferred",
                    [procs[p].data EXCEPT !.status = "paye",
                                          !.paypalOrderId = procs[p].s]))
            /\ pendingPayPalOrders' = CacheDelete(procs[p].s)
            /\ lastResp' = Receipted(Resp("capture", "paypalDeferred", 200),
                                     Len(orders) + 1, emailOk)
       ELSE /\ lastResp' = Resp("capture", "paypalDeferred", 500)
            /\ UNCHANGED <<orders, pendingPayPalOrders>>

---------------------------------------------------------------------------
(* PayPal, eager variants: the Order is created before PayPal is called *)

\* Variants of the two steps of createPayPalOrder with one defect each:
\* the first stores the Order before it compares the totals, the second
\* cancels the stored Order when PayPal fails.
CreatePayPalOrder_Begin_PersistsFirst(flow, req, dbOk) ==
    /\ flow \in EagerPayPalFlows
    /\ UNCHANGED <<sessions, pendingPayPalOrders, overlapped>>
    /\ IF PayPalCheckoutError(flow, req) \notin {"", "mismatch"}
       THEN /\ lastResp' = RespTo(req, flow, 400)
            /\ UNCHANGED <<orders, procs>>
       ELSE IF ~dbOk
       THEN /\ lastResp' = RespTo(req, flow, 500)
            /\ UNCHANGED <<orders, procs>>
       ELSE /\ Len(orders) < MaxOrders
            /\ IdleProcs # {}
            /\ orders' = Append(orders,
                  CreatedDoc(flow, PayPalOrderData(flow, req, "en_attente")))
            /\ IF PayPalCheckoutError(flow, req) = "mismatch"
               THEN /\ lastResp' = RespTo(req, flow, 400)
                    /\ UNCHANGED procs
               ELSE /\ procs' = [procs EXCEPT ![FreeProc] =
                          [kind |-> "ppCreate", flow |-> flow, o |-> Len(orders) + 1,
                           req |-> req,
                           loaded |-> CreatedDoc(flow,
                                        PayPalOrderData(flow, req, "en_attente"))]]
                    /\ UNCHANGED lastResp

CreatePayPalOrder_Gateway_CancelsOnFailure(p, outcome) ==
    LET sid == Len(sessions) + 1
        loaded == procs[p].loaded
        local == [loaded EXCEPT !.paypalOrderId = sid]
    IN
    /\ procs[p].kind = "ppCreate"
    /\ procs' = [procs EXCEPT ![p] = Idle]
    /\ UNCHANGED <<pendingPayPalOrders, overlapped>>
    /\ IF outcome \in {"tokenFails", "postFails"}
       THEN /\ lastResp' = RespTo(procs[p].req, procs[p].flow,
                               IF outcome = "tokenFails" THEN 502 ELSE 500)
            /\ orders' = [orders EXCEPT ![procs[p].o].status = "annule"]
            /\ UNCHANGED sessions
       ELSE /\ Len(sessions) < MaxSessions
            /\ sessions' = Append(sessions, Session(procs[p].flow, loaded.amount, <<>>))
            /\ IF outcome = "noApprovalUrl"
               THEN /\ lastResp' = RespTo(procs[p].req, procs[p].flow, 502)
                    /\ orders' = [orders EXCEPT ![procs[p].o].status = "annule"]
               ELSE IF SaveValid(loaded, local)
               THEN /\ orders' = [orders EXCEPT ![procs[p].o] =
                                     SavedDoc(orders[procs[p].o], loaded, local)]
                    /\ lastResp' = RespTo(procs[p].req, procs[p].flow, 201)
               ELSE /\ lastResp' = RespTo(procs[p].req, procs[p].flow, 500)
                    /\ UNCHANGED orders

\* createPayPalOrder up to the end of await Order.create
CreatePayPalOrder_Begin(flow, req, dbOk) ==
    /\ flow \in EagerPayPalFlows
    /\ UNCHANGED <<sessions, pendingPayPalOrders, overlapped>>
    /\ IF PayPalCheckoutError(flow, req) # ""
       THEN /\ lastResp' = RespTo(req, flow, 400)
            /\ UNCHANGED <<orders, procs>>
       ELSE IF ~dbOk
       THEN /\ lastResp' = RespTo(req, flow, 500)
            /\ UNCHANGED <<orders, procs>>
       ELSE /\ Len(orders) < MaxOrders
            /\ IdleProcs # {}
            /\ orders' = Append(orders,
                  CreatedDoc(flow, PayPalOrderData(flow, req, "en_attente")))
            /\ procs' = [procs EXCEPT ![FreeProc] =
                  [kind |-> "ppCreate", flow |-> flow, o |-> Len(orders) + 1, req |-> req,
                   loaded |-> CreatedDoc(flow, PayPalOrderData(flow, req, "en_attente"))]]
            /\ UNCHANGED lastResp

\* the rest of createPayPalOrder: token, POST /v2/checkout/orders, approval
\* link, order.paypalOrderId = id, order.save(), 201
CreatePayPalOrder_Gateway(p, outcome) ==
    LET sid == Len(sessions) + 1
        loaded == procs[p].loaded
        local == [loaded EXCEPT !.paypalOrderId = sid]
    IN
    /\ procs[p].kind = "ppCreate"
    /\ procs' = [procs EXCEPT ![p] = Idle]
    /\ UNCHANGED <<pendingPayPalOrders, overlapped>>
    /\ IF outcome \in {"tokenFails", "postFails"}
       THEN /\ lastResp' = RespTo(procs[p].req, procs[p].flow,
                               IF outcome = "tokenFails" THEN 502 ELSE 500)
            /\ UNCHANGED <<orders, sessions>>
       ELSE /\ Len(sessions) < MaxSessions
            /\ sessions' = Append(sessions, Session(procs[p].flow, loaded.amount, <<>>))
            /\ IF outcome = "noApprovalUrl"
               THEN /\ lastResp' = RespTo(procs[p].req, procs[p].flow, 502)
                    /\ UNCHANGED orders
               ELSE IF SaveValid(loaded, local)
               THEN /\ orders' = [orders EXCEPT ![procs[p].o] =
                                     SavedDoc(orders[procs[p].o], loaded, local)]
                    /\ lastResp' = RespTo(procs[p].req, procs[p].flow, 201)
               ELSE /\ lastResp' = RespTo(procs[p].req, procs[p].flow, 500)
                    /\ UNCHANGED orders

\* capturePayPalOrder up to the end of await Order.findById; bodyId is the
\* paypalOrderId of the request body (NoId when absent), which only the
\* second version of the controller reads
CapturePayPalEager_Begin(o, bodyId) ==
    LET flow == orders[o].flow
        paypalId == IF flow = "paypalEager" /\ bodyId # NoId
                    THEN bodyId ELSE orders[o].paypalOrderId
    IN
    /\ o \in OrderIds
    /\ flow \in EagerPayPalFlows
    /\ bodyId # NoId => bodyId \in SessionIds /\ sessions[bodyId].flow \in PayPalFlows
    /\ UNCHANGED <<orders, sessions, pendingPayPalOrders>>
    /\ IF paypalId = NoId
       THEN /\ lastResp' = Resp("capture", flow, 400)
            /\ UNCHANGED <<procs, overlapped>>
       ELSE /\ IdleProcs # {}
            /\ procs' = [procs EXCEPT ![FreeProc] =
                  [kind |-> "ecapCapture", flow |-> flow, o |-> o, s |-> paypalId,
                   fetched |-> "none", loaded |-> orders[o], completed |-> FALSE]]
            /\ overlapped' = IF ConfirmInFlight(paypalId)
                             THEN overlapped \cup {paypalId} ELSE overlapped
            /\ UNCHANGED lastResp

CapturePayPalEager_Capture(p, a) ==
    /\ procs[p].kind = "ecapCapture"
    /\ a \in CaptureAnswers(procs[p].s)
    /\ UNCHANGED <<orders, pendingPayPalOrders, overlapped>>
    /\ IF a.err # 0
       THEN /\ procs' = [procs EXCEPT ![p] = Idle]
            /\ lastResp' = Resp("capture", procs[p].flow, a.err)
            /\ UNCHANGED sessions
       ELSE /\ procs' = [procs EXCEPT ![p].kind = "ecapSave",
                                      ![p].completed = (a.remote = "COMPLETED")]
            /\ sessions' = IF a.remote = "COMPLETED"
                           THEN [sessions EXCEPT ![procs[p].s].state = "COMPLETED"]
                           ELSE sessions
            /\ UNCHANGED lastResp

\* order.status = isCompleted ? paid : failed; await order.save(); respond
FailedStatusOf(flow) == IF flow = "paypalV1" THEN "annule" ELSE "echec_paiement"

CapturePayPalEager_Save(p) ==
    LET loaded == procs[p].loaded
        local == [loaded EXCEPT !.status = IF procs[p].completed THEN "paye"
                                           ELSE FailedStatusOf(procs[p].flow)]
    IN
    /\ procs[p].kind = "ecapSave"
    /\ procs' = [procs EXCEPT ![p] = Idle]
    /\ UNCHANGED <<sessions, pendingPayPalOrders, overlapped>>
    /\ IF SaveValid(loaded, local)
       THEN /\ orders' = [orders EXCEPT ![procs[p].o] =
                             SavedDoc(orders[procs[p].o], loaded, local)]
            /\ lastResp' = Resp("capture", procs[p].flow, 200)
       ELSE /\ lastResp' = Resp("capture", procs[p].flow, 500)
            /\ UNCHANGED orders

---------------------------------------------------------------------------
(* POST /orders of the customer API: prices come from the catalog *)

RECURSIVE CatalogMissing(_)
CatalogMissing(items) ==
    IF items = <<>> THEN FALSE
    ELSE Head(items).catalog = {} \/ CatalogMissing(Tail(items))

\* the subtotals variant.price * item.quantity added up
RECURSIVE CatalogSum(_)
CatalogSum(items) ==
    IF items = <<>> THEN 0
    ELSE (CHOOSE c \in Head(items).catalog : TRUE) * Head(items).quantity
         + CatalogSum(Tail(items))

\* the early returns of createOrder, the throw of the catalog lookup, and
\* what the schema's required and enum validators reject in Order.create
CreateOrderError(req) ==
    IF req.items = <<>> THEN "items"
    ELSE IF req.paymentMethod \notin {"stripe", "paypal", "especes"} THEN "paymentMethod"
    ELSE IF req.pickupType = "delivery" /\ ~req.deliveryTime THEN "deliveryTime"
    ELSE IF CatalogMissing(req.items) THEN "product"
    ELSE IF req.pickupType \notin {"store", "delivery"} THEN "pickupType"
    ELSE IF ~(CustomerHasName(req) /\ CustomerHasEmail(req) /\ CustomerHasPhone(req))
        THEN "customer"
    ELSE ""

CreateOrderData(req) ==
    [status |-> "",
     paymentMethod |-> req.paymentMethod,
     pickupType |-> req.pickupType,
     amount |-> CatalogSum(req.items) + req.deliveryFee - req.discountAmount,
     itemsTotal |-> CatalogSum(req.items),
     deliveryFee |-> req.deliveryFee,
     discountAmount |-> req.discountAmount,
     pickupLocation |-> req.pickupLocation,
     deliveryAddress |-> req.deliveryAddress,
     stripePaymentIntentId |-> NoId,
     paypalOrderId |-> NoId]

CreateOrder(req) ==
    /\ UNCHANGED <<sessions, pendingPayPalOrders, procs, overlapped>>
    /\ IF CreateOrderError(req) # ""
       THEN /\ lastResp' = RespTo(req, "api", 400)
            /\ UNCHANGED orders
       ELSE /\ Len(orders) < MaxOrders
            /\ orders' = Append(orders, CreatedDoc("api", CreateOrderData(req)))
            /\ lastResp' = RespTo(req, "api", 201)

---------------------------------------------------------------------------
(* Next-state relations *)

Procs == 1..MaxProcs
AnyAnswer == [err : {0, 404, 422, 500}, remote : {"COMPLETED", "PENDING", "none"}]

Next ==
    \/ \E s \in SessionIds : StripePaymentSucceeds(s)
    \/ \E s \in SessionIds : PayerApproves(s)
    \/ \E req \in ProtocolRequests : CreatePaymentIntentDeferred(req)
    \/ \E s \in SessionIds, type \in StripeEventTypes, sigOk \in BOOLEAN :
          HandleStripeWebhookDeferred_Begin(s, type, sigOk)
    \/ \E p \in Procs, dbOk \in BOOLEAN, emailOk \in BOOLEAN :
          HandleStripeWebhookDeferred_Persist(p, dbOk, emailOk)
    \/ \E req \in ProtocolRequests, outcome \in EagerOutcomes :
          CreatePaymentIntentEager(req, outcome)
    \/ \E s \in SessionIds, type \in StripeEventTypes, sigOk \in BOOLEAN,
          dbOk \in BOOLEAN, emailOk \in BOOLEAN :
          HandleStripeWebhookEager(s, type, sigOk, dbOk, emailOk)
    \/ \E o \in OrderIds, status \in AdminStatuses : AdminUpdateOrderStatus(o, status)
    \/ \E req \in ProtocolRequests, outcome \in GatewayOutcomes :
          CreatePayPalOrderDeferred(req, outcome)
    \/ \E s \in RemoteIds : CapturePayPalOrder_Begin(s)
    \/ \E p \in Procs, err \in {0, 404, 422, 500} : CapturePayPalOrder_Status(p, err)
    \/ \E p \in Procs, a \in AnyAnswer : CapturePayPalOrder_Capture(p, a)
    \/ \E p \in Procs, dbOk \in BOOLEAN, emailOk \in BOOLEAN :
          CapturePayPalOrder_Persist(p, dbOk, emailOk)
    \/ \E req \in ProtocolRequests, dbOk \in BOOLEAN :
          CreatePayPalOrder_Begin("paypalEager", req, dbOk)
    \/ \E p \in Procs, outcome \in GatewayOutcomes : CreatePayPalOrder_Gateway(p, outcome)
    \/ \E o \in OrderIds, bodyId \in {NoId} \cup SessionIds :
          CapturePayPalEager_Begin(o, bodyId)
    \/ \E p \in Procs, a \in AnyAnswer : CapturePayPalEager_Capture(p, a)
    \/ \E p \in Procs : CapturePayPalEager_Save(p)

Spec == Init /\ [][Next]_vars

\* The checkout operations alone: one checkout, with any request of
\* AllRequests, handled in a store that is empty, or holds a PayPal checkout
\* waiting for its capture, or holds a paid Order of the eager Stripe variant.
PendingPayPalStore ==
    [orders |-> <<>>,
     sessions |-> <<Session("paypalDeferred",
                            PayPalOrderData("paypalDeferred", StoreReq, "").amount, <<>>)>>,
     pendingPayPalOrders |->
         {[id |-> 1, data |-> PayPalOrderData("paypalDeferred", StoreReq, "")]},
     lastResp |-> RespTo(StoreReq, "paypalDeferred", 201)]

PaidStripeStore ==
    [orders |-> <<[CreatedDoc("stripeEager", StripeEagerOrderData(StoreReq, 1))
                     EXCEPT !.status = "paid"]>>,
     sessions |-> <<[Session("stripeEager", ToCents(StoreReq.amount) * 10, <<>>)
                       EXCEPT !.state = "succeeded", !.acked = TRUE]>>,
     pendingPayPalOrders |-> {},
     lastResp |-> Resp("webhook", "stripeEager", 200)]

EmptyStore ==
    [orders |-> <<>>, sessions |-> <<>>, pendingPayPalOrders |-> {}, lastResp |-> NoResp]

CheckoutStart ==
    \E st \in {EmptyStore, PendingPayPalStore, PaidStripeStore} :
        /\ orders = st.orders
        /\ sessions = st.sessions
        /\ pendingPayPalOrders = st.pendingPayPalOrders
        /\ lastResp = st.lastResp
        /\ procs = [p \in 1..MaxProcs |-> Idle]
        /\ overlapped = {}

NextCheckout ==
    \/ CheckoutStart /\ \E req \in AllRequests : CreateOrder(req)
    \/ CheckoutStart /\ \E req \in AllRequests : CreatePaymentIntentDeferred(req)
    \/ CheckoutStart /\ \E req \in AllRequests,
                            outcome \in EagerOutcomes :
                           CreatePaymentIntentEager(req, outcome)
    \/ CheckoutStart /\ \E req \in AllRequests, outcome \in GatewayOutcomes :
                           CreatePayPalOrderDeferred(req, outcome)
    \/ CheckoutStart /\ \E flow \in EagerPayPalFlows, req \in AllRequests,
                            dbOk \in BOOLEAN :
                           CreatePayPalOrder_Begin(flow, req, dbOk)
    \/ \E p \in Procs, outcome \in GatewayOutcomes : CreatePayPalOrder_Gateway(p, outcome)

SpecCheckout == CheckoutStart /\ [][NextCheckout]_vars

\* The deferred variants alone, under fair scheduling: every handler step in
\* flight is eventually taken; the processor keeps redelivering a success event
\* that has not been answered 2xx; the client keeps retrying a capture that
\* has not produced its Order; a call that is attempted again and again
\* (token, status fetch, capture, Order.create) does not fail every time.
NextDeferred ==
    \/ \E s \in SessionIds : StripePaymentSucceeds(s)
    \/ \E s \in SessionIds : PayerApproves(s)
    \/ \E req \in ProtocolRequests : CreatePaymentIntentDeferred(req)
    \/ \E s \in SessionIds, type \in StripeEventTypes, sigOk \in BOOLEAN :
          HandleStripeWebhookDeferred_Begin(s, type, sigOk)
    \/ \E p \in Procs, dbOk \in BOOLEAN, emailOk \in BOOLEAN :
          HandleStripeWebhookDeferred_Persist(p, dbOk, emailOk)
    \/ \E req \in ProtocolRequests, outcome \in GatewayOutcomes :
          CreatePayPalOrderDeferred(req, outcome)
    \/ \E s \in RemoteIds : CapturePayPalOrder_Begin(s)
    \/ \E p \in Procs, err \in {0, 404, 422, 500} : CapturePayPalOrder_Status(p, err)
    \/ \E p \in Procs, a \in AnyAnswer : CapturePayPalOrder_Capture(p, a)
    \/ \E p \in Procs, dbOk \in BOOLEAN, emailOk \in BOOLEAN :
          CapturePayPalOrder_Persist(p, dbOk, emailOk)

Redelivery ==
    \E s \in SessionIds :
        /\ ~sessions[s].acked
        /\ HandleStripeWebhookDeferred_Begin(s, "payment_intent.succeeded", TRUE)

ClientRetry ==
    \E s \in SessionIds :
        /\ sessions[s].flow = "paypalDeferred"
        /\ PaidOrdersOfSession(s) = {}
        /\ CapturePayPalOrder_Begin(s)

FairSpec ==
    /\ Init /\ [][NextDeferred]_vars
    /\ SF_vars(Redelivery)
    /\ SF_vars(ClientRetry)
    /\ WF_vars(\E p \in Procs, dbOk \in BOOLEAN, emailOk \in BOOLEAN :
                  HandleStripeWebhookDeferred_Persist(p, dbOk, emailOk))
    /\ SF_vars(\E p \in Procs, emailOk \in BOOLEAN :
                  HandleStripeWebhookDeferred_Persist(p, TRUE, emailOk))
    /\ WF_vars(\E p \in Procs, err \in {0, 404, 422, 500} : CapturePayPalOrder_Status(p, err))
    /\ SF_vars(\E p \in Procs : CapturePayPalOrder_Status(p, 0))
    /\ WF_vars(\E p \in Procs, a \in AnyAnswer : CapturePayPalOrder_Capture(p, a))
    /\ SF_vars(\E p \in Procs : CapturePayPalOrder_Capture(p, [err |-> 0, remote |-> "COMPLETED"]))
    /\ WF_vars(\E p \in Procs, dbOk \in BOOLEAN, emailOk \in BOOLEAN :
                  CapturePayPalOrder_Persist(p, dbOk, emailOk))
    /\ SF_vars(\E p \in Procs, emailOk \in BOOLEAN :
                  CapturePayPalOrder_Persist(p, TRUE, emailOk))

---------------------------------------------------------------------------
(* Order life cycle: the back-office handlers of                            *)
(* src/src/controllers/admin/orderController.js and the customer's          *)
(* PATCH /api/orders/:id/status.  Each handler loads the Order with         *)
(* findById, changes the loaded document and saves it; o ranges over the    *)
(* ids a request can name, among them ids no Order has.                     *)

RequestedOrders == 1..MaxOrders

\* order.save() of the document loaded from orders[o] and changed to local:
\* the Order store afterwards, unchanged when validation rejects the save
SaveOrder(o, local) ==
    IF SaveValid(orders[o], local)
    THEN [orders EXCEPT ![o] = SavedDoc(orders[o], orders[o], local)]
    ELSE orders

\* admin PATCH /orders/:id/status
UpdateOrderStatus(o, status) ==
    /\ o \in RequestedOrders
    /\ UNCHANGED <<sessions, pendingPayPalOrders, procs, overlapped>>
    /\ IF status \notin {"en_attente", "paye", "termine", "annule"}
       THEN /\ lastResp' = Resp("updateOrderStatus", "admin", 400)
            /\ UNCHANGED orders
       ELSE IF o \notin OrderIds
       THEN /\ lastResp' = Resp("updateOrderStatus", "admin", 404)
            /\ UNCHANGED orders
       ELSE LET local == [orders[o] EXCEPT
                            !.status = status,
                            !.isDelivered = IF status = "termine" THEN TRUE ELSE @]
            IN /\ orders' = SaveOrder(o, local)
               /\ lastResp' = Resp("updateOrderStatus", "admin",
                                   IF SaveValid(orders[o], local) THEN 200 ELSE 400)

\* admin cancelOrder: status 'annule', save
CancelOrder(o) ==
    /\ o \in RequestedOrders
    /\ UNCHANGED <<sessions, pendingPayPalOrders, procs, overlapped>>
    /\ IF o \notin OrderIds
       THEN /\ lastResp' = Resp("cancelOrder", "admin", 404)
            /\ UNCHANGED orders
       ELSE LET local == [orders[o] EXCEPT !.status = "annule"]
            IN /\ orders' = SaveOrder(o, local)
               /\ lastResp' = Resp("cancelOrder", "admin",
                                   IF SaveValid(orders[o], local) THEN 200 ELSE 400)

\* orderSchema.methods.marquerLivree, which only the first version of the
\* schema defines
MarquerLivree(doc) ==
    IF doc.pickupType = "delivery"
    THEN [doc EXCEPT !.isDelivered = TRUE, !.status = "termine"]
    ELSE doc

\* admin markDelivered: order.marquerLivree(); on a document of the second
\* schema the call throws and the catch answers 400
MarkDelivered(o) ==
    /\ o \in RequestedOrders
    /\ UNCHANGED <<sessions, pendingPayPalOrders, procs, overlapped>>
    /\ IF o \notin OrderIds
       THEN /\ lastResp' = Resp("markDelivered", "admin", 404)
            /\ UNCHANGED orders
       ELSE IF orders[o].flow # "paypalV1"
       THEN /\ lastResp' = Resp("markDelivered", "admin", 400)
            /\ UNCHANGED orders
       ELSE IF orders[o].pickupType # "delivery"
       THEN /\ lastResp' = Resp("markDelivered", "admin", 200)
            /\ UNCHANGED orders
       ELSE LET local == MarquerLivree(orders[o])
            IN /\ orders' = SaveOrder(o, local)
               /\ lastResp' = Resp("markDelivered", "admin",
                                   IF SaveValid(orders[o], local) THEN 200 ELSE 400)

\* admin updateLogistics: addr, loc are the deliveryAddress and
\* pickupLocation of the body ("none": absent), fee its deliveryFee (-1: not
\* a number); status is not touched, so the pre-save hook acts
UpdateLogistics(o, addr, loc, fee) ==
    /\ o \in RequestedOrders
    /\ UNCHANGED <<sessions, pendingPayPalOrders, procs, overlapped>>
    /\ IF o \notin OrderIds
       THEN /\ lastResp' = Resp("updateLogistics", "admin", 404)
            /\ UNCHANGED orders
       ELSE LET local == [orders[o] EXCEPT
                            !.deliveryAddress = IF addr # "none" THEN addr ELSE @,
                            !.pickupLocation = IF loc # "none" THEN loc ELSE @,
                            !.deliveryFee = IF fee >= 0 THEN fee ELSE @]
            IN /\ orders' = SaveOrder(o, local)
               /\ lastResp' = Resp("updateLogistics", "admin",
                                   IF SaveValid(orders[o], local) THEN 200 ELSE 400)

\* customer PATCH /api/orders/:id/status: status is the status of the body
\* ("": absent), markDelivered its flag
CustomerUpdateOrderStatus(o, status, markDelivered) ==
    /\ o \in RequestedOrders
    /\ UNCHANGED <<sessions, pendingPayPalOrders, procs, overlapped>>
    /\ IF o \notin OrderIds
       THEN /\ lastResp' = Resp("updateOrderStatus", "api", 404)
            /\ UNCHANGED orders
       ELSE LET given == [orders[o] EXCEPT !.status = IF status # "" THEN status ELSE @]
                local == IF markDelivered /\ given.pickupType = "delivery"
                         THEN [given EXCEPT !.isDelivered = TRUE, !.status = "termine"]
                         ELSE given
            IN /\ orders' = SaveOrder(o, local)
               /\ lastResp' = Resp("updateOrderStatus", "api",
                                   IF SaveValid(orders[o], local) THEN 200 ELSE 500)

CashDeliveryReq ==
    Req(OneItem, 500, 0, 2500, "delivery", "none", "full", TRUE, "ok", "especes")

\* the checkouts whose Orders the life cycle follows
LifecycleRequests == {StoreReq, DeliveryReq, CashDeliveryReq}

BodyStatuses == {"", "en_attente", "paye", "termine", "annule", "livre"}

\* The life cycle is followed for the Orders of the first MaxLifecycleOrders
\* checkouts.
NextLifecycle ==
    \/ Len(orders) < MaxLifecycleOrders
          /\ \E req \in LifecycleRequests : CreateOrder(req)
    \/ Len(orders) < MaxLifecycleOrders
          /\ \E req \in LifecycleRequests, dbOk \in BOOLEAN :
                CreatePayPalOrder_Begin("paypalV1", req, dbOk)
    \/ \E p \in Procs, outcome \in GatewayOutcomes : CreatePayPalOrder_Gateway(p, outcome)
    \/ \E o \in RequestedOrders, status \in BodyStatuses : UpdateOrderStatus(o, status)
    \/ \E o \in RequestedOrders : CancelOrder(o)
    \/ \E o \in RequestedOrders : MarkDelivered(o)
    \/ \E o \in RequestedOrders, addr \in {"none", "full"}, loc \in {"none", "full"},
          fee \in {-1, 500} : UpdateLogistics(o, addr, loc, fee)
    \/ \E o \in RequestedOrders, status \in BodyStatuses, markDelivered \in BOOLEAN :
          CustomerUpdateOrderStatus(o, status, markDelivered)

SpecLifecycle == Init /\ [][NextLifecycle]_vars

\* One Order of the eager PayPal version whose capture handler writes annule
\* on failure, from its checkout to its capture calls.
NextEagerCapture ==
    \/ Len(orders) < MaxLifecycleOrders
          /\ \E req \in LifecycleRequests, dbOk \in BOOLEAN :
                CreatePayPalOrder_Begin("paypalV1", req, dbOk)
    \/ \E p \in Procs, outcome \in GatewayOutcomes : CreatePayPalOrder_Gateway(p, outcome)
    \/ \E s \in SessionIds : PayerApproves(s)
    \/ \E o \in OrderIds : CapturePayPalEager_Begin(o, NoId)
    \/ \E p \in Procs, a \in AnyAnswer : CapturePayPalEager_Capture(p, a)
    \/ \E p \in Procs : CapturePayPalEager_Save(p)

SpecEagerCapture == Init /\ [][NextEagerCapture]_vars

---------------------------------------------------------------------------
(* Claims *)

\* C1: for every remote session id, at most one Order bearing that id is
\* paid, whatever confirmations (webhook deliveries, capture calls) have been
\* handled so far.
C1_AtMostOnePaidOrderPerSession ==
    \A s \in SessionIds : Cardinality(PaidOrdersOfSession(s)) <= 1

\* the processor holds the money of session s
Captured(s) == sessions[s].state \in {"succeeded", "COMPLETED"}

\* C2: when two confirmation handlers for the same remote session id have
\* overlapped and both have finished, a captured session has exactly one paid
\* Order: the interleaving neither duplicates the Order nor loses it.
C2_OverlappedConfirmsYieldOnePaidOrder ==
    \A s \in overlapped :
        (~ConfirmInFlight(s) /\ Captured(s))
            => Cardinality(PaidOrdersOfSession(s)) = 1

\* C3: in the deferred variants, under fair redelivery and fair retry, a
\* session whose payment the processor has captured eventually has a paid
\* Order, also when an Order.create attempt has failed on the way.
C3_CapturedEventuallyRecorded ==
    \A s \in 1..MaxSessions :
        (s \in SessionIds /\ Captured(s))
            ~> (s \in SessionIds /\ PaidOrdersOfSession(s) # {})

\* the declared total of req is not the recomputed one
DeclaredMismatch(req) == Abs(req.amount - ExpectedTotal(req)) > Tolerance

PaymentFlows == {"stripeDeferred", "stripeEager", "paypalDeferred", "paypalEager", "paypalV1"}

\* C4: a payment checkout, in every variant, whose declared total differs
\* from the recomputed total by more than 0.01 is answered 400, and its
\* handling creates no Order, no remote session and no cache entry.
C4_MismatchedCheckoutIsRejected ==
    [][(/\ lastResp' # lastResp
        /\ lastResp'.op = "create"
        /\ lastResp'.flow \in PaymentFlows
        /\ DeclaredMismatch(lastResp'.req[1]))
          => /\ lastResp'.code = 400
             /\ UNCHANGED <<orders, sessions, pendingPayPalOrders>>]_vars

\* C5: the amount stored on every Order is the sum of its line totals plus
\* its delivery fee minus its discount, rounded to two decimals, whatever
\* amount the client declared.
C5_StoredAmountIsRecomputedTotal ==
    \A o \in OrderIds :
        orders[o].amount =
            Round2(orders[o].itemsTotal + orders[o].deliveryFee - orders[o].discountAmount)

\* C6: every Order that a checkout creates for a card or wallet payment is
\* pending when it has been stored (after the pre-save hook).
C6_CardOrdersStartPending ==
    [][\A o \in (1..Len(orders')) \ OrderIds :
         orders'[o].paymentMethod # "especes"
            => orders'[o].status \in {"pending", "en_attente"}]_vars

\* C7: an Order of the eager PayPal variant is paid only when a PayPal
\* capture has answered COMPLETED; until then, and through the save that
\* attaches paypalOrderId, it stays en_attente.
C7_EagerPayPalPaidOnlyAfterCapture ==
    \A o \in OrderIds :
        (orders[o].flow = "paypalEager" /\ orders[o].status = "paye")
            => \E s \in SessionIds :
                 sessions[s].flow \in PayPalFlows /\ sessions[s].state = "COMPLETED"

\* C8: in the eager Stripe variant a success event changes only an Order that
\* is still pending; for an Order in any other status it is a no-op.
C8_SuccessEventOnSettledOrderIsNoOp ==
    [][\A s \in SessionIds, type \in {"payment_intent.succeeded", "charge.succeeded"} :
         HandleStripeWebhookEager(s, type, TRUE, TRUE, TRUE)
            => \A o \in OrderIds : orders[o].status # "pending" => orders'[o] = orders[o]]_vars

\* C9: in the eager PayPal variant, when the call to PayPal fails after the
\* Order was stored (no token, the POST throws, no approval link), the
\* handler leaves the Order store as it is, so the Order it stored as
\* en_attente without paypalOrderId remains, and it answers 500 or 502.
C9_GatewayFailureKeepsPendingOrder ==
    [][\A p \in Procs, outcome \in {"tokenFails", "postFails", "noApprovalUrl"} :
         CreatePayPalOrder_Gateway(p, outcome)
            => /\ orders' = orders
               /\ procs[p].o \in OrderIds
               /\ procs[p].loaded.status = "en_attente"
               /\ procs[p].loaded.paypalOrderId = NoId
               /\ lastResp'.code \in {500, 502}]_vars

C9_Witness ==
    /\ lastResp.op = "create" /\ lastResp.flow = "paypalEager" /\ lastResp.code = 502
    /\ \E o \in OrderIds :
          /\ orders[o].flow = "paypalEager"
          /\ orders[o].status = "en_attente"
          /\ orders[o].paypalOrderId = NoId

\* the check of its handler that req fails ("" when it passes them all)
CheckoutError(flow, req) ==
    IF flow = "api" THEN CreateOrderError(req)
    ELSE IF flow = "stripeDeferred" THEN StripeDeferredError(req)
    ELSE IF flow = "stripeEager" THEN StripeEagerError(req)
    ELSE PayPalCheckoutError(flow, req)

\* C10: a checkout rejected by validation or by the total check is answered
\* 400 and leaves the Order store, the pending cache and the remote sessions
\* exactly as they were.
C10_RejectionChangesNothing ==
    [][(/\ lastResp' # lastResp
        /\ lastResp'.op = "create"
        /\ CheckoutError(lastResp'.flow, lastResp'.req[1]) # "")
          => /\ lastResp'.code = 400
             /\ UNCHANGED <<orders, sessions, pendingPayPalOrders, procs>>]_vars

C10_Witness ==
    /\ lastResp.op = "create" /\ lastResp.code = 400
    /\ lastResp.flow = "paypalDeferred"
    /\ PayPalCheckoutError("paypalDeferred", lastResp.req[1]) = "mismatch"
    /\ pendingPayPalOrders # {} /\ sessions # <<>>

\* C11: in the deferred variants a confirmation that does not succeed creates
\* no Order and ends its handler: a PayPal status check that fails or is not
\* APPROVED, a PayPal capture that throws or answers a status other than
\* COMPLETED, a Stripe event other than payment_intent.succeeded.  When the
\* capture answered a status other than COMPLETED the cache entry of that
\* remote session id is gone afterwards.
C11_FailedCaptureCreatesNoOrder ==
    [][/\ \A p \in Procs, a \in AnyAnswer :
            (CapturePayPalOrder_Capture(p, a) /\ (a.err # 0 \/ a.remote # "COMPLETED"))
               => /\ orders' = orders
                  /\ procs'[p] = Idle
                  /\ lastResp'.code \in {404, 422, 500}
                  /\ a.err = 0 =>
                        { e \in pendingPayPalOrders' : e.id = procs[p].s } = {}
       /\ \A p \in Procs, err \in {0, 404, 422, 500} :
            (CapturePayPalOrder_Status(p, err) /\ procs'[p].kind # "capCapture")
               => orders' = orders /\ procs'[p] = Idle
       /\ \A s \in SessionIds, type \in StripeEventTypes \ {"payment_intent.succeeded"} :
            HandleStripeWebhookDeferred_Begin(s, type, TRUE)
               => orders' = orders /\ procs' = procs]_vars

\* a capture answered PENDING: the payer had approved, no Order, no payload
C11_Witness ==
    /\ lastResp.op = "capture" /\ lastResp.flow = "paypalDeferred"
    /\ lastResp.code = 422
    /\ \E s \in SessionIds :
          /\ sessions[s].flow = "paypalDeferred"
          /\ sessions[s].state = "APPROVED"
          /\ CacheGet(s) = {}
          /\ OrdersOfSession(s) = {}
          /\ ~ConfirmInFlight(s)

\* the Orders the deferred PayPal capture created for paypalOrderId s
OrdersBearing(s) ==
    { o \in OrderIds : orders[o].flow = "paypalDeferred" /\ orders[o].paypalOrderId = s }

\* C12: in the deferred PayPal variant a capture request for a remote
\* session id that has no cache entry and no paid Order is answered 404; it
\* creates no Order, changes no Order, session or cache entry, and starts
\* neither the status check nor the capture.
C12_UnknownSessionIsNotFound ==
    [][\A s \in RemoteIds \ {NoId} :
         (/\ CapturePayPalOrder_Begin(s)
          /\ CacheGet(s) = {}
          /\ \A o \in OrdersBearing(s) : orders[o].status \notin PaidStatuses)
            => /\ lastResp' = Resp("capture", "paypalDeferred", 404)
               /\ UNCHANGED <<orders, sessions, pendingPayPalOrders, procs>>]_vars

\* the 404 of a capture request when no checkout was ever started
C12_Witness ==
    /\ lastResp = Resp("capture", "paypalDeferred", 404)
    /\ sessions = <<>>
    /\ orders = <<>>
    /\ pendingPayPalOrders = {}

\* C13: in the deferred PayPal variant a capture request for a remote
\* session id whose payload was already promoted (no cache entry, a paid
\* Order bears the id) is answered with success, and it changes neither the
\* Order store nor the cache.
C13_DuplicateCaptureIsSuccessfulNoOp ==
    [][\A s \in RemoteIds \ {NoId} :
         (/\ CapturePayPalOrder_Begin(s)
          /\ CacheGet(s) = {}
          /\ \E o \in OrdersBearing(s) : orders[o].status \in PaidStatuses)
            => /\ lastResp'.code = 200
               /\ UNCHANGED <<orders, pendingPayPalOrders>>]_vars

\* C14: in the PayPal variants, deferred and eager, a capture request reaches
\* PayPal only from a handler that has fetched the status of the PayPal order
\* and read APPROVED; a handler that reads any other status sends no capture,
\* creates and changes no Order, and answers 422.
C14_CaptureOnlyAfterApprovedStatus ==
    [][/\ \A p \in Procs, a \in AnyAnswer :
            CapturePayPalOrder_Capture(p, a) => procs[p].fetched = "APPROVED"
       /\ \A p \in Procs, a \in AnyAnswer :
            (CapturePayPalEager_Capture(p, a) /\ a.err # 500)
               => procs[p].fetched = "APPROVED"
       /\ \A p \in Procs :
            (CapturePayPalOrder_Status(p, 0) /\ sessions[procs[p].s].state # "APPROVED")
               => /\ lastResp' = Resp("capture", "paypalDeferred", 422)
                  /\ orders' = orders
                  /\ procs'[p] = Idle]_vars

\* C15: when the invoice mail fails during a confirmation (deferred PayPal
\* capture, deferred and eager Stripe webhook), the Order is paid and linked
\* to its remote session exactly as the paid transition left it, no other
\* Order changes, and the caller gets the success response the handler sends
\* when the mail goes out.
C15_MailFailureChangesNothing ==
    [][/\ \A p \in Procs :
            CapturePayPalOrder_Persist(p, TRUE, FALSE)
               => /\ lastResp'.op = "capture" /\ lastResp'.code = 200
                  /\ Len(orders') = Len(orders) + 1
                  /\ orders'[Len(orders')].status = "paye"
                  /\ orders'[Len(orders')].paypalOrderId = procs[p].s
                  /\ \A o \in OrderIds : orders'[o] = orders[o]
       /\ \A p \in Procs :
            HandleStripeWebhookDeferred_Persist(p, TRUE, FALSE)
               => /\ lastResp'.op = "webhook" /\ lastResp'.code = 200
                  /\ Len(orders') = Len(orders) + 1
                  /\ orders'[Len(orders')].status = "paye"
                  /\ orders'[Len(orders')].stripePaymentIntentId = procs[p].s
                  /\ \A o \in OrderIds : orders'[o] = orders[o]
       /\ \A s \in SessionIds, type \in {"payment_intent.succeeded", "charge.succeeded"} :
            HandleStripeWebhookEager(s, type, TRUE, TRUE, FALSE)
               => /\ lastResp'.op = "webhook" /\ lastResp'.code = 200
                  /\ Len(orders') = Len(orders)
                  /\ \A o \in OrderIds :
                        IF o = FoundOrder(s)
                        THEN orders'[o] = [orders[o] EXCEPT !.status = "paid"]
                        ELSE orders'[o] = orders[o]]_vars

\* a deferred PayPal capture answered 200 and no invoice went out: the paid
\* Order of the session is stored
C15_Witness ==
    /\ lastResp.op = "capture" /\ lastResp.flow = "paypalDeferred"
    /\ lastResp.code = 200 /\ lastResp.receipt = NoId
    /\ \E s \in SessionIds :
          /\ sessions[s].flow = "paypalDeferred"
          /\ \E o \in OrdersBearing(s) : orders[o].status = "paye"

\* C16: when the signature of a webhook request is not accepted, the Stripe
\* webhook (deferred and eager) answers 400, its handler ends before any
\* access to the Order store (no Order is created or changed, no persist
\* step is started), and no invoice is mailed.
C16_BadSignatureIsRejected ==
    [][/\ \A s \in SessionIds, type \in StripeEventTypes :
            HandleStripeWebhookDeferred_Begin(s, type, FALSE)
               => /\ lastResp' = Resp("webhook", "stripeDeferred", 400)
                  /\ UNCHANGED <<orders, sessions, pendingPayPalOrders, procs>>
       /\ \A s \in SessionIds, type \in StripeEventTypes,
              dbOk \in BOOLEAN, emailOk \in BOOLEAN :
            HandleStripeWebhookEager(s, type, FALSE, dbOk, emailOk)
               => /\ lastResp' = Resp("webhook", "stripeEager", 400)
                  /\ UNCHANGED <<orders, sessions, pendingPayPalOrders, procs>>]_vars

\* a request with a bad signature was answered 400 for a PaymentIntent that
\* has succeeded, and no Order of it exists and none is being created
C16_Witness ==
    /\ lastResp = Resp("webhook", "stripeDeferred", 400)
    /\ \E s \in SessionIds :
          /\ sessions[s].flow = "stripeDeferred"
          /\ sessions[s].state = "succeeded"
          /\ OrdersOfSession(s) = {}
          /\ ~ConfirmInFlight(s)

\* C17: the Stripe webhook (deferred and eager) answers an error status only
\* to a request whose signature is not accepted; every event with an accepted
\* signature is answered 200, ignorable event types and repeated success
\* events included; and when it answers 200 to payment_intent.succeeded, a
\* paid Order of that PaymentIntent exists.
C17_WebhookAnswers ==
    [][/\ \A s \in SessionIds, type \in StripeEventTypes :
            HandleStripeWebhookDeferred_Begin(s, type, TRUE)
               => (lastResp' # lastResp => lastResp'.code = 200)
       /\ \A p \in Procs, dbOk \in BOOLEAN, emailOk \in BOOLEAN :
            HandleStripeWebhookDeferred_Persist(p, dbOk, emailOk)
               => (lastResp'.code = 200 =>
                     \E o \in 1..Len(orders') :
                        /\ orders'[o].stripePaymentIntentId = procs[p].s
                        /\ orders'[o].status \in PaidStatuses)
       /\ \A s \in SessionIds, type \in StripeEventTypes,
              emailOk \in BOOLEAN :
            HandleStripeWebhookEager(s, type, TRUE, TRUE, emailOk)
               => /\ lastResp'.code = 200
                  /\ type = "payment_intent.succeeded" =>
                        \E o \in 1..Len(orders') :
                           /\ orders'[o].stripePaymentIntentId = s
                           /\ orders'[o].status \in PaidStatuses]_vars

\* C18: every Order, when it has been created (after the pre-save hook), has
\* isDelivered = TRUE if its pickupType is store and isDelivered = FALSE if
\* it is delivery, on every creation path: with the status left to the hook,
\* with an explicit pending status (eager) and with an explicit paid status
\* (deferred).  The Orders concerned are those of the schemas that declare
\* isDelivered, which the schema of the eager Stripe variant does not.
C18_DeliveredDefaultAtCreation ==
    [][\A o \in (1..Len(orders')) \ OrderIds :
         orders'[o].flow # "stripeEager"
            => orders'[o].isDelivered = (orders'[o].pickupType = "store")]_vars

\* C20: in the eager PayPal variant, when the capture call answers with a
\* status other than COMPLETED, the stored Order of that request is in the
\* failed status once the handler has finished, and neither pending nor paid.
C20_FailedCaptureMarksOrderFailed ==
    [][\A p \in Procs :
         (CapturePayPalEager_Save(p) /\ ~procs[p].completed)
            => /\ orders'[procs[p].o].status = FailedStatusOf(procs[p].flow)
               /\ orders'[procs[p].o].status \notin {"en_attente", "paye"}]_vars

\* C19: in every reachable state an Order with isDelivered = TRUE is a store
\* pickup, or a delivery whose status is termine, whatever admin
\* updateOrderStatus, cancelOrder, markDelivered, updateLogistics and customer
\* updateOrderStatus calls have been handled.
C19_DeliveredImpliesStoreOrCompleted ==
    \A o \in OrderIds :
        orders[o].isDelivered
            => \/ orders[o].pickupType = "store"
               \/ orders[o].pickupType = "delivery" /\ orders[o].status = "termine"

\* the items of req are empty, or one of them has a price <= 0 or a
\* quantity <= 0
BadItems(req) == req.items = <<>> \/ FirstBadItem(req.items, 1) # 0

\* C21: a payment checkout, PayPal or Stripe, whose items are empty or hold
\* an item with quantity <= 0 or price <= 0 is answered 400 by validation,
\* and no remote session is created for it.
C21_BadItemsAreRejected ==
    [][(/\ lastResp' # lastResp
        /\ lastResp'.op = "create"
        /\ lastResp'.flow \in PaymentFlows
        /\ BadItems(lastResp'.req[1]))
          => /\ lastResp'.code = 400
             /\ UNCHANGED <<orders, sessions, pendingPayPalOrders>>]_vars

\* req names delivery without a street and a city, or store pickup without
\* a pickup location carrying id, name and address
BadFulfillment(req) ==
    \/ req.pickupType = "delivery" /\ req.deliveryAddress # "full"
    \/ req.pickupType = "store" /\ req.pickupLocation # "full"

\* C22: a payment checkout for delivery without street and city, or for
\* store pickup without a pickup location carrying id, name and address, is
\* answered 400, and no remote session is created for it.
C22_BadFulfillmentIsRejected ==
    [][(/\ lastResp' # lastResp
        /\ lastResp'.op = "create"
        /\ lastResp'.flow \in PaymentFlows
        /\ BadFulfillment(lastResp'.req[1]))
          => /\ lastResp'.code = 400
             /\ UNCHANGED sessions]_vars

\* the document or payload d carries the fulfillment payload of its
\* pickupType and not the other one
OnePayload(d) ==
    /\ d.pickupType = "store" =>
          d.pickupLocation # "none" /\ d.deliveryAddress = "none"
    /\ d.pickupType = "delivery" =>
          d.deliveryAddress # "none" /\ d.pickupLocation = "none"

\* C23: every stored Order, every payload waiting in the pending cache and
\* every payload kept in a PaymentIntent's metadata carries exactly one
\* fulfillment payload: pickupLocation for store, deliveryAddress for
\* delivery, never both and never neither.
C23_ExactlyOneFulfillmentPayload ==
    /\ \A o \in OrderIds : OnePayload(orders[o])
    /\ \A e \in pendingPayPalOrders : OnePayload(e.data)
    /\ \A s \in SessionIds :
          sessions[s].payload # <<>> => OnePayload(sessions[s].payload[1])

\* C24: in the eager variants every remote session created by a checkout has
\* a persisted Order bearing its id, which a later confirmation can find; a
\* failure of Order persistence leaves no payable session without an Order.
EagerFlows == {"stripeEager", "paypalEager", "paypalV1"}

C24_EagerSessionHasOrder ==
    \A s \in SessionIds :
        sessions[s].flow \in EagerFlows => OrdersOfSession(s) # {}

\* C25: in the deferred PayPal variant the cache holds an entry for a remote
\* session id from the successful return of createPayPalOrder until the
\* capture for that id completes: once capturePayPalOrder has returned, no
\* entry is left for an id whose capture PayPal has completed, and no paid
\* Order and cache entry for the same id coexist.
CaptureCompleted(s) == sessions[s].state = "COMPLETED"

C25_CacheEntryLifetime ==
    /\ \A e \in pendingPayPalOrders :
          e.id \in SessionIds /\ sessions[e.id].flow = "paypalDeferred"
    /\ \A s \in SessionIds :
          sessions[s].flow = "paypalDeferred" /\ ~ConfirmInFlight(s) =>
             /\ CaptureCompleted(s) => CacheGet(s) = {}
             /\ (\E o \in OrdersBearing(s) : orders[o].status \in PaidStatuses)
                   => CacheGet(s) = {}

\* C26: a save that does not modify status (order.save() after
\* createPayPalOrder sets paypalOrderId, or after admin updateLogistics
\* changes the address, the pickup location or the delivery fee) leaves the
\* status and isDelivered of every Order as they were.
StatusAndDeliveryKept ==
    \A o \in OrderIds :
        /\ orders'[o].status = orders[o].status
        /\ orders'[o].isDelivered = orders[o].isDelivered

C26_SaveWithoutStatusChangeKeepsStatus ==
    [][/\ \A o \in RequestedOrders, addr \in {"none", "full"}, loc \in {"none", "full"},
             fee \in {-1, 500} :
               UpdateLogistics(o, addr, loc, fee) => StatusAndDeliveryKept
       /\ \A p \in Procs, outcome \in GatewayOutcomes :
               CreatePayPalOrder_Gateway(p, outcome) => StatusAndDeliveryKept]_vars

\* C27: a Stripe success event (payment_intent.succeeded or charge.succeeded)
\* changes the status of an Order only when that status is pending: an Order
\* an admin has set to cancelled, failed or completed keeps its status when a
\* late or redelivered success event for its PaymentIntent is handled.
SettledByAdmin == {"cancelled", "failed", "completed"}

C27_LateSuccessEventKeepsAdminStatus ==
    [][\A s \in SessionIds, type \in {"payment_intent.succeeded", "charge.succeeded"},
          dbOk \in BOOLEAN, emailOk \in BOOLEAN :
         HandleStripeWebhookEager(s, type, TRUE, dbOk, emailOk)
            => \A o \in OrdersOfSession(s) :
                  orders[o].status \in SettledByAdmin
                     => orders'[o].status = orders[o].status]_vars

\* C28: in the eager PayPal variants a capturePayPalOrder call that finds its
\* Order already paid leaves it paid, whatever PayPal answers.
C28_LaterCaptureKeepsPaid ==
    [][\A p \in Procs :
         (CapturePayPalEager_Save(p) /\ procs[p].loaded.status = "paye")
            => orders'[procs[p].o].status = "paye"]_vars

\* C29: in the deferred PayPal variant a capturePayPalOrder call that ends
\* without a terminal capture result (the status read is not APPROVED, or the
\* token, status or capture call throws) leaves the cache as it is, so an
\* entry of its remote session id stays there for a later call.
EndsWithoutCaptureResult(p) ==
    \/ /\ procs[p].kind = "capStatus"
       /\ procs'[p] = Idle
       /\ \E err \in {0, 404, 422, 500} : CapturePayPalOrder_Status(p, err)
    \/ /\ procs[p].kind = "capCapture"
       /\ \E a \in AnyAnswer : a.err # 0 /\ CapturePayPalOrder_Capture(p, a)

C29_RefusedCaptureKeepsCacheEntry ==
    [][\A p \in Procs :
         EndsWithoutCaptureResult(p)
            => pendingPayPalOrders' = pendingPayPalOrders]_vars

\* a capture call was refused as not approved and the entry is still cached
C29_Witness ==
    \E s \in SessionIds :
        /\ sessions[s].flow = "paypalDeferred"
        /\ sessions[s].state = "CREATED"
        /\ ~ConfirmInFlight(s)
        /\ lastResp.op = "capture" /\ lastResp.flow = "paypalDeferred"
        /\ lastResp.code = 422
        /\ CacheGet(s) # {}

\* C30: the stored status of every Order is always a member of the closed
\* status set of its schema; no operation stores a status outside it.
C30_StatusInSchemaEnum ==
    \A o \in OrderIds : orders[o].status \in StatusEnum(orders[o].flow)

====
